---- MODULE Spec2Model ----
(***************************************************************************)
(* Model of the Cerebrus PR-comment section engine                         *)
(* (bin/ci-pr-validation: comment-sections, build-size-report,             *)
(* validate-changenotes, path rules).                                      *)
(*                                                                         *)
(* A text is a sequence of tokens.  A token is an indivisible piece of     *)
(* text: a marker verbatim, a line break, the separator "---", or a piece  *)
(* of caller-supplied Markdown.  No token is a substring of another one    *)
(* and Array.join puts a line break between any two parts, so the regular  *)
(* expressions of parseCommentSections (whose markers hold no regex        *)
(* metacharacter) match exactly at token boundaries.                       *)
(***************************************************************************)
EXTENDS Integers, Sequences, FiniteSets, TLC

VARIABLES body, last, upserted, sections, rendered, reparsed, store, jobs, writes

vars == <<body, last, upserted, sections, rendered, reparsed, store, jobs, writes>>

-----------------------------------------------------------------------------
(* Bounds of the model.                                                    *)

\* Most line breaks a caller puts before, and after, the text of a content.
MaxPad == 1

\* Longest comment body (in tokens) the model follows.
MaxBodyLen == 40

-----------------------------------------------------------------------------
(* Texts.                                                                  *)

NL == "\n"

SEPARATOR == "---"

\* Characters String.prototype.trim removes.
WhiteSpace == {NL, " ", "\t"}

\* JavaScript null, as returned by removeCommentSection and getExistingComment.
null == <<"null">>

CEREBRUS_IDENTIFIER == "<!-- TiddlyWiki PR report -->"

SectionKeys == {"BUILD_SIZE", "PATH_VALIDATION", "CHANGE_NOTE"}

\* Object.entries(SECTIONS): the own keys in the order the literal lists them.
SectionOrder == <<"BUILD_SIZE", "PATH_VALIDATION", "CHANGE_NOTE">>

SECTIONS ==
    [k \in SectionKeys |->
        CASE k = "BUILD_SIZE" ->
                [priority |-> 1,
                 start |-> "<!-- Build Size Section -->",
                 end |-> "<!-- End Build Size Section -->"]
          [] k = "PATH_VALIDATION" ->
                [priority |-> 2,
                 start |-> "<!-- Path Validation Section -->",
                 end |-> "<!-- End Path Validation Section -->"]
          [] k = "CHANGE_NOTE" ->
                [priority |-> 3,
                 start |-> "<!-- Change Note Section -->",
                 end |-> "<!-- End Change Note Section -->"]]

\* SECTIONS is an object literal: a property read also finds what
\* Object.prototype holds (constructor, toString, ...), each a function.
InheritedKeys == {"constructor"}

\* A key no object has.
AbsentKeys == {"NOT_REAL"}

\* !SECTIONS[sectionKey] is false for a registered key and for an inherited one.
Truthy(sectionKey) == sectionKey \in SectionKeys \cup InheritedKeys

StartMarkers == {SECTIONS[k].start : k \in SectionKeys}

EndMarkers == {SECTIONS[k].end : k \in SectionKeys}

Markers == StartMarkers \cup EndMarkers

\* { content, ...SECTIONS[sectionKey] }: the spread of a descriptor copies its
\* three fields; the spread of an inherited function copies nothing, and the
\* fields stay undefined (Array.join writes undefined as the empty text).
Entry(sectionKey, content) ==
    IF sectionKey \in SectionKeys
    THEN [key |-> sectionKey, content |-> content, defined |-> TRUE,
          priority |-> SECTIONS[sectionKey].priority,
          start |-> <<SECTIONS[sectionKey].start>>,
          end |-> <<SECTIONS[sectionKey].end>>]
    ELSE [key |-> sectionKey, content |-> content, defined |-> FALSE,
          priority |-> 0, start |-> <<>>, end |-> <<>>]

\* First index >= from at which tok stands in s, 0 when there is none.
IndexFrom(s, tok, from) ==
    LET hits == {i \in from..Len(s) : s[i] = tok}
    IN IF hits = {} THEN 0 ELSE CHOOSE i \in hits : \A j \in hits : i <= j

\* String.prototype.trim.
Trim(s) ==
    LET solid == {i \in 1..Len(s) : s[i] \notin WhiteSpace}
    IN IF solid = {} THEN <<>>
       ELSE LET lo == CHOOSE i \in solid : \A j \in solid : i <= j
                hi == CHOOSE i \in solid : \A j \in solid : j <= i
            IN SubSeq(s, lo, hi)

\* Last index at which tok stands in s, 0 when there is none.
LastIndex(s, tok) ==
    LET hits == {i \in 1..Len(s) : s[i] = tok}
    IN IF hits = {} THEN 0 ELSE CHOOSE i \in hits : \A j \in hits : j <= i

\* The match of a greedy group ([\s\S]* for [\s\S]*?): up to the last end marker.
GreedyRegexMatch(commentBody, start, end) ==
    LET i == IndexFrom(commentBody, start, 1)
        j == IF i = 0 THEN 0 ELSE LastIndex(commentBody, end)
    IN [matched |-> j > i /\ i # 0,
        group |-> IF j > i /\ i # 0 THEN SubSeq(commentBody, i + 1, j - 1) ELSE <<>>]

\* The match of a pattern that lets the text end where the end marker is
\* missing (start([\s\S]*?)(end|$)).
OpenEndedRegexMatch(commentBody, start, end) ==
    LET i == IndexFrom(commentBody, start, 1)
        j == IF i = 0 THEN 0 ELSE IndexFrom(commentBody, end, i + 1)
    IN [matched |-> i # 0,
        group |-> IF i = 0 THEN <<>>
                  ELSE IF j = 0 THEN SubSeq(commentBody, i + 1, Len(commentBody))
                  ELSE SubSeq(commentBody, i + 1, j - 1)]

\* commentBody.match(new RegExp(start + "([\\s\\S]*?)" + end)): the leftmost
\* start marker that an end marker follows, up to the nearest such end marker.
RegexMatch(commentBody, start, end) ==
    LET i == IndexFrom(commentBody, start, 1)
        j == IF i = 0 THEN 0 ELSE IndexFrom(commentBody, end, i + 1)
    IN [matched |-> j # 0,
        group |-> IF j = 0 THEN <<>> ELSE SubSeq(commentBody, i + 1, j - 1)]

\* What the capture group becomes in parseCommentSections.
NoTrimCapture(group) == group

Capture(group) == Trim(group)

RECURSIVE ParseFrom(_, _)
ParseFrom(commentBody, n) ==
    IF n > Len(SectionOrder) THEN <<>>
    ELSE LET key == SectionOrder[n]
             m == RegexMatch(commentBody, SECTIONS[key].start, SECTIONS[key].end)
         IN (IF m.matched THEN <<Entry(key, Capture(m.group))>> ELSE <<>>)
            \o ParseFrom(commentBody, n + 1)

\* The object parseCommentSections returns, as its entries in insertion order.
parseCommentSections(commentBody) == ParseFrom(commentBody, 1)

\* a.priority - b.priority; NaN (an undefined priority) counts as 0 in a sort.
Compare(a, b) ==
    IF a.defined /\ b.defined THEN a.priority - b.priority ELSE 0

RECURSIVE InsertSorted(_, _)
InsertSorted(sorted, e) ==
    IF sorted = <<>> THEN <<e>>
    ELSE IF Compare(sorted[Len(sorted)], e) > 0
         THEN InsertSorted(SubSeq(sorted, 1, Len(sorted) - 1), e)
              \o <<sorted[Len(sorted)]>>
         ELSE Append(sorted, e)

RECURSIVE SortFrom(_, _, _)
SortFrom(entries, n, acc) ==
    IF n > Len(entries) THEN acc
    ELSE SortFrom(entries, n + 1, InsertSorted(acc, entries[n]))

\* Object.entries(sections) in insertion order, unsorted.
InsertionOrder(entries) == entries

\* Object.entries(sections).sort(by priority): a stable sort.
SortedSections(entries) == SortFrom(entries, 1, <<>>)

\* Whether buildComment pushes '' and '---' after the section at index.
SeparatorAfterEvery(index, count) == TRUE

SeparatorAfter(index, count) == index < count

RECURSIVE PartsFrom(_, _)
PartsFrom(sortedSections, index) ==
    IF index > Len(sortedSections) THEN <<>>
    ELSE LET section == sortedSections[index]
         IN <<<<>>, section.start, <<>>, section.content, <<>>, section.end>>
            \o (IF SeparatorAfter(index, Len(sortedSections))
                THEN <<<<>>, <<SEPARATOR>>>> ELSE <<>>)
            \o PartsFrom(sortedSections, index + 1)

\* parts.join('\n')
RECURSIVE Join(_)
Join(parts) ==
    IF Len(parts) = 0 THEN <<>>
    ELSE IF Len(parts) = 1 THEN parts[1]
    ELSE parts[1] \o <<NL>> \o Join(Tail(parts))

\* buildComment without the identifier as its first part.
buildWithoutIdentifier(entries) == Join(PartsFrom(SortedSections(entries), 1))

buildComment(entries) ==
    Join(<<<<CEREBRUS_IDENTIFIER>>>> \o PartsFrom(SortedSections(entries), 1))

\* An assignment that adds the value last even where the key is there.
AssignAppends(entries, value) == Append(entries, value)

\* sections[sectionKey] = value: an own key keeps its place, a new one is
\* added last.
Assign(entries, value) ==
    IF \E i \in 1..Len(entries) : entries[i].key = value.key
    THEN [i \in 1..Len(entries) |->
            IF entries[i].key = value.key THEN value ELSE entries[i]]
    ELSE Append(entries, value)

\* delete sections[sectionKey]
Delete(entries, sectionKey) ==
    SelectSeq(entries, LAMBDA e : e.key # sectionKey)

\* What a call does: it throws (message names the key), or returns value
\* (a body, or null); parsed tells whether parseCommentSections ran.
Thrown(sectionKey) ==
    [kind |-> "throw", value |-> null, message |-> sectionKey, parsed |-> FALSE]

Returned(value, parsed) ==
    [kind |-> "return", value |-> value, message |-> "", parsed |-> parsed]

\* The content updateCommentSection would store if it trimmed it.
TrimmedContent(newContent) == Trim(newContent)

\* The content updateCommentSection stores for the section.
StoredContent(newContent) == newContent

\* An upsert that builds from its own section alone.
updateWithoutParse(existingBody, sectionKey, newContent) ==
    IF ~Truthy(sectionKey) THEN Thrown(sectionKey)
    ELSE Returned(buildComment(<<Entry(sectionKey, StoredContent(newContent))>>), TRUE)

updateCommentSection(existingBody, sectionKey, newContent) ==
    IF ~Truthy(sectionKey) THEN Thrown(sectionKey)
    ELSE LET entries == Assign(parseCommentSections(existingBody),
                               Entry(sectionKey, StoredContent(newContent)))
         IN Returned(buildComment(entries), TRUE)

\* removeCommentSection without its "no sections left" return.
removeAlwaysRebuilds(existingBody, sectionKey) ==
    IF ~Truthy(sectionKey) THEN Thrown(sectionKey)
    ELSE Returned(buildComment(Delete(parseCommentSections(existingBody), sectionKey)),
                  TRUE)

removeCommentSection(existingBody, sectionKey) ==
    IF ~Truthy(sectionKey) THEN Thrown(sectionKey)
    ELSE LET entries == Delete(parseCommentSections(existingBody), sectionKey)
         IN IF Len(entries) = 0 THEN Returned(null, TRUE)
            ELSE Returned(buildComment(entries), TRUE)

createCommentWithSection(sectionKey, content) ==
    IF ~Truthy(sectionKey) THEN Thrown(sectionKey)
    ELSE LET entries == <<Entry(sectionKey, content)>>
         IN Returned(buildComment(entries), FALSE)

-----------------------------------------------------------------------------
(* The inputs: what the content producers hand over, what a fetch returns. *)

Pad(k) == [i \in 1..k |-> NL]

Pads == {lr \in (0..MaxPad) \X (0..MaxPad) : lr[1] + lr[2] <= MaxPad}

Padded(cores) == {Pad(lr[1]) \o c \o Pad(lr[2]) : lr \in Pads, c \in cores}

\* Markdown of the producers: empty, a line of text, a text with a "---"
\* rule of its own (generateValidationFailedComment); generateMarkdown's
\* template ends in a line break, the others' do not.
PlainCores == {<<>>, <<"x">>, <<SEPARATOR>>}

\* Markdown that quotes a section marker.
MarkerCores == {<<SECTIONS["PATH_VALIDATION"].start>>}

\* Markdown that quotes the guard marker.
GuardCores == {<<CEREBRUS_IDENTIFIER>>}

PlainContents == Padded(PlainCores)

AllContents == Padded(PlainCores \cup MarkerCores \cup GuardCores)

MarkerFree(text) == \A i \in 1..Len(text) : text[i] \notin Markers

StartOf(k) == SECTIONS[k].start

EndOf(k) == SECTIONS[k].end

\* existing.body of a fetched comment that the calls did not write (edited
\* by hand, or written by something else): no section at all, no guard
\* marker, a section twice, a start marker twice, two sections interleaved,
\* a start marker with no end marker (outside the other sections, inside
\* one), the guard marker quoted inside a section.
FetchedBodies ==
    { <<CEREBRUS_IDENTIFIER>>,
      <<"x">>,
      <<StartOf("BUILD_SIZE"), "x", EndOf("BUILD_SIZE")>>,
      <<CEREBRUS_IDENTIFIER, NL, StartOf("BUILD_SIZE"), "x", EndOf("BUILD_SIZE"), NL,
        StartOf("BUILD_SIZE"), SEPARATOR, EndOf("BUILD_SIZE")>>,
      <<CEREBRUS_IDENTIFIER, NL, StartOf("BUILD_SIZE"), StartOf("BUILD_SIZE"), "x",
        EndOf("BUILD_SIZE")>>,
      <<CEREBRUS_IDENTIFIER, NL, StartOf("BUILD_SIZE"), StartOf("PATH_VALIDATION"),
        EndOf("BUILD_SIZE"), EndOf("PATH_VALIDATION")>>,
      <<CEREBRUS_IDENTIFIER, NL, StartOf("BUILD_SIZE"), "x", EndOf("BUILD_SIZE"), NL,
        StartOf("CHANGE_NOTE"), "x">>,
      <<CEREBRUS_IDENTIFIER, NL, StartOf("BUILD_SIZE"), "x", StartOf("CHANGE_NOTE"),
        EndOf("BUILD_SIZE")>>,
      <<CEREBRUS_IDENTIFIER, NL, StartOf("BUILD_SIZE"), CEREBRUS_IDENTIFIER,
        EndOf("BUILD_SIZE")>> }

\* What a call sees of the body it is given: whether the guard marker is its
\* first line, and the sections whose start marker stands in it with no end
\* marker after it.
Unclosed(text) ==
    {k \in SectionKeys :
        LET i == IndexFrom(text, StartOf(k), 1)
        IN i # 0 /\ IndexFrom(text, EndOf(k), i + 1) = 0}

Seen(existingBody) ==
    [guarded |-> existingBody # <<>> /\ existingBody[1] = CEREBRUS_IDENTIFIER,
     unclosed |-> Unclosed(existingBody)]

-----------------------------------------------------------------------------
(* The calls, applied one after another: body is the comment as it stands  *)
(* (null: there is none), last is the latest call, with the key and the     *)
(* content it was given and what it did, upserted is what the calls so far  *)
(* were asked to leave: the keys upserted and not removed since, each with  *)
(* the content of its latest upsert, trimmed.                              *)

NoSections == [k \in {} |-> <<>>]

Upsert(map, key, content) ==
    [k \in DOMAIN map \cup {key} |-> IF k = key THEN Trim(content) ELSE map[k]]

Drop(map, key) == [k \in DOMAIN map \ {key} |-> map[k]]

NoCall ==
    [op |-> "none", key |-> "", content |-> <<>>, ret |-> Returned(null, FALSE),
     seen |-> Seen(<<>>)]

Call(op, key, content, ret, existingBody) ==
    [op |-> op, key |-> key, content |-> content, ret |-> ret,
     seen |-> Seen(existingBody)]

Idle ==
    /\ sections = <<>> /\ rendered = <<>> /\ reparsed = <<>>
    /\ store = <<>> /\ jobs = <<>> /\ writes = <<>>

IdleUnchanged == UNCHANGED <<sections, rendered, reparsed, store, jobs, writes>>

\* A caller that found no comment creates one.
Create(key, content) ==
    /\ body = null
    /\ key \in SectionKeys
    /\ LET r == createCommentWithSection(key, content)
       IN /\ Len(r.value) <= MaxBodyLen
          /\ last' = Call("create", key, content, r, <<>>)
          /\ body' = r.value
    /\ upserted' = Upsert(NoSections, key, content)
    /\ IdleUnchanged

\* A caller that found a comment updates its section in it.
Update(key, content) ==
    /\ body # null
    /\ key \in SectionKeys
    /\ LET r == updateCommentSection(body, key, content)
       IN /\ Len(r.value) <= MaxBodyLen
          /\ last' = Call("update", key, content, r, body)
          /\ body' = r.value
    /\ upserted' = Upsert(upserted, key, content)
    /\ IdleUnchanged

\* A caller that found a comment removes its section from it; a null
\* result has the caller delete the comment.
Remove(key) ==
    /\ body # null
    /\ key \in SectionKeys
    /\ LET r == removeCommentSection(body, key)
       IN /\ Len(r.value) <= MaxBodyLen
          /\ last' = Call("remove", key, <<>>, r, body)
          /\ body' = r.value
    /\ upserted' = Drop(upserted, key)
    /\ IdleUnchanged

\* The three calls with a key that is not registered.  No caller in the
\* repository passes one: the outcome is recorded, the comment is left alone.
CreateUnregistered(key, content) ==
    /\ key \notin SectionKeys
    /\ last' = Call("create", key, content, createCommentWithSection(key, content), <<>>)
    /\ UNCHANGED <<body, upserted>>
    /\ IdleUnchanged

UpdateUnregistered(key, content) ==
    /\ body # null
    /\ key \notin SectionKeys
    /\ last' = Call("update", key, content, updateCommentSection(body, key, content), body)
    /\ UNCHANGED <<body, upserted>>
    /\ IdleUnchanged

RemoveUnregistered(key) ==
    /\ body # null
    /\ key \notin SectionKeys
    /\ last' = Call("remove", key, <<>>, removeCommentSection(body, key), body)
    /\ UNCHANGED <<body, upserted>>
    /\ IdleUnchanged

Init ==
    /\ body = null
    /\ last = NoCall
    /\ upserted = NoSections
    /\ Idle

Next ==
    \/ \E key \in SectionKeys, content \in PlainContents : Create(key, content)
    \/ \E key \in SectionKeys, content \in PlainContents : Update(key, content)
    \/ \E key \in SectionKeys : Remove(key)
    \/ \E key \in InheritedKeys \cup AbsentKeys : CreateUnregistered(key, <<"x">>)
    \/ \E key \in InheritedKeys \cup AbsentKeys : UpdateUnregistered(key, <<"x">>)
    \/ \E key \in InheritedKeys \cup AbsentKeys : RemoveUnregistered(key)

\* From no comment, with the producers' Markdown.
Spec == Init /\ [][Next]_vars

InitFetched ==
    /\ body \in {null} \cup FetchedBodies
    /\ last = NoCall
    /\ upserted = NoSections
    /\ Idle

NextFetched ==
    \/ \E key \in SectionKeys, content \in AllContents : Create(key, content)
    \/ \E key \in SectionKeys, content \in AllContents : Update(key, content)
    \/ \E key \in SectionKeys : Remove(key)

\* From any fetched comment, with any Markdown.
SpecFetched == InitFetched /\ [][NextFetched]_vars

-----------------------------------------------------------------------------
(* parse(serialize(sections)): sections is the object handed to            *)
(* buildComment (its entries in insertion order), rendered the text it     *)
(* returns, reparsed what parseCommentSections makes of that text.         *)

NotParsed == [done |-> FALSE, entries |-> <<>>]

\* The sequences of distinct registered keys: every insertion order of every
\* set of sections.
KeyOrders ==
    {o \in UNION {[1..n -> SectionKeys] : n \in 0..Cardinality(SectionKeys)} :
        \A i, j \in 1..Len(o) : i # j => o[i] # o[j]}

SectionObjects ==
    {[i \in 1..Len(o) |-> Entry(o[i], c[i])] :
        o \in KeyOrders, c \in [1..Cardinality(SectionKeys) -> PlainContents]}

ChainIdle ==
    /\ body = null /\ last = NoCall /\ upserted = NoSections
    /\ store = <<>> /\ jobs = <<>> /\ writes = <<>>

InitRoundTrip ==
    /\ sections \in SectionObjects
    /\ rendered = null
    /\ reparsed = NotParsed
    /\ ChainIdle

Serialize ==
    /\ rendered = null
    /\ rendered' = buildComment(sections)
    /\ UNCHANGED <<sections, reparsed, body, last, upserted, store, jobs, writes>>

Parse ==
    /\ rendered # null
    /\ ~reparsed.done
    /\ reparsed' = [done |-> TRUE, entries |-> parseCommentSections(rendered)]
    /\ UNCHANGED <<sections, rendered, body, last, upserted, store, jobs, writes>>

NextRoundTrip == Serialize \/ Parse

SpecRoundTrip == InitRoundTrip /\ [][NextRoundTrip]_vars

-----------------------------------------------------------------------------
(* The three jobs against one pull request.  store is the pull request's   *)
(* comments (a comment's id is its index; null: deleted), jobs is each      *)
(* job's progress, writes is the log of the write calls made.  A job's     *)
(* awaits are the points at which another job may run.                     *)

JobNames == {"commentSize", "validateChangeNotes", "applyRules"}

\* The section key each job passes.
KeyOf(job) ==
    CASE job = "commentSize" -> "BUILD_SIZE"
      [] job = "validateChangeNotes" -> "CHANGE_NOTE"
      [] job = "applyRules" -> "PATH_VALIDATION"

\* The Markdown each job hands over: generateMarkdown's template ends in a
\* line break, applyRules trims its message, the change-note texts end in text.
MessageOf(job) ==
    CASE job = "commentSize" -> <<"y", NL>>
      [] job = "validateChangeNotes" -> <<"y">>
      [] job = "applyRules" -> Trim(<<NL, NL, "y">>)

NoComment == [id |-> 0, body |-> null]

\* utils.getExistingComment(owner, repo, pr, identifier): the first comment
\* of the pull request whose body includes the identifier, or nothing.
getExistingComment(comments, identifier) ==
    LET owned == {i \in 1..Len(comments) :
                    /\ comments[i] # null
                    /\ \E p \in 1..Len(comments[i]) : comments[i][p] = identifier}
    IN IF owned = {} THEN NoComment
       ELSE LET first == CHOOSE i \in owned : \A j \in owned : i <= j
            IN [id |-> first, body |-> comments[first]]

\* The body the job merges its section into, read from the store at the
\* time of the write.
BodyInStore(job) ==
    IF store[jobs[job].existing.id] # null
    THEN store[jobs[job].existing.id]
    ELSE jobs[job].existing.body

\* The body the job merges its section into: the one it fetched.
BodyToMerge(job) == jobs[job].existing.body

Owned(sectionKey, content) == createCommentWithSection(sectionKey, content).value

\* Comments a pull request may hold when the jobs start: none; one that is
\* not the bot's; the bot's with one section; another's and then the bot's
\* with two sections.
InitialStores ==
    { <<>>,
      <<<<"x">>>>,
      <<Owned("PATH_VALIDATION", <<"x">>)>>,
      <<Owned("CHANGE_NOTE", <<"x">>)>>,
      <<<<"x">>,
        updateCommentSection(Owned("BUILD_SIZE", <<"x">>), "PATH_VALIDATION", <<"x">>).value>> }

\* hasMessage: messages.length && !abort (applyRules; the other two jobs
\* always have a text).  passed: validationPassed (validateChangeNotes).
JobInputs(job) ==
    [pc : {"start"}, dryRun : BOOLEAN,
     hasMessage : IF job = "applyRules" THEN BOOLEAN ELSE {TRUE},
     passed : IF job = "validateChangeNotes" THEN BOOLEAN ELSE {TRUE},
     existing : {NoComment}, fetchedAt : {0}]

InitJobs ==
    /\ store \in InitialStores
    /\ jobs \in {f \in [JobNames -> UNION {JobInputs(j) : j \in JobNames}] :
                    \A j \in JobNames : f[j] \in JobInputs(j)}
    /\ writes = <<>>
    /\ body = null /\ last = NoCall /\ upserted = NoSections
    /\ sections = <<>> /\ rendered = <<>> /\ reparsed = <<>>

JobsUnchanged == UNCHANGED <<body, last, upserted, sections, rendered, reparsed>>

Finished(job) == IF jobs[job].passed THEN "done" ELSE "failed"

\* A job that takes every run for a real one.
DryRunIgnored(job) == TRUE

\* !dryRun: the run is a real one.
NotDryRun(job) == ~jobs[job].dryRun

\* commentSize and validateChangeNotes in a dry run: the text is logged.
DryRunLog(job) ==
    /\ job # "applyRules"
    /\ jobs[job].pc = "start"
    /\ ~NotDryRun(job)
    /\ jobs' = [jobs EXCEPT ![job].pc = Finished(job)]
    /\ UNCHANGED <<store, writes>>
    /\ JobsUnchanged

\* await utils.getExistingComment(...): applyRules fetches in a dry run too.
Fetch(job) ==
    /\ jobs[job].pc = "start"
    /\ job = "applyRules" \/ NotDryRun(job)
    /\ jobs' = [jobs EXCEPT ![job].pc = "fetched",
                            ![job].existing = getExistingComment(store, CEREBRUS_IDENTIFIER),
                            ![job].fetchedAt = Len(writes)]
    /\ UNCHANGED <<store, writes>>
    /\ JobsUnchanged

WriteCall(job, call, id, text) == [job |-> job, call |-> call, id |-> id, body |-> text]

\* utils.updateComment / utils.deleteComment on a comment that is gone fails
\* (the request is answered 404) and the job ends in that error.
Gone(id) == store[id] = null

\* The job has a text and found a comment: it upserts its section there.
UpdateExisting(job) ==
    /\ jobs[job].pc = "fetched"
    /\ jobs[job].hasMessage
    /\ NotDryRun(job)
    /\ jobs[job].existing # NoComment
    /\ LET id == jobs[job].existing.id
           updatedBody == updateCommentSection(BodyToMerge(job), KeyOf(job), MessageOf(job)).value
       IN /\ writes' = Append(writes, WriteCall(job, "updateComment", id, updatedBody))
          /\ IF Gone(id)
             THEN /\ jobs' = [jobs EXCEPT ![job].pc = "failed"]
                  /\ UNCHANGED store
             ELSE /\ jobs' = [jobs EXCEPT ![job].pc = Finished(job)]
                  /\ store' = [store EXCEPT ![id] = updatedBody]
    /\ JobsUnchanged

\* The job has a text and found no comment: it posts a new one.
PostNew(job) ==
    /\ jobs[job].pc = "fetched"
    /\ jobs[job].hasMessage
    /\ NotDryRun(job)
    /\ jobs[job].existing = NoComment
    /\ LET fullComment == createCommentWithSection(KeyOf(job), MessageOf(job)).value
       IN /\ writes' = Append(writes, WriteCall(job, "postComment", Len(store) + 1, fullComment))
          /\ store' = Append(store, fullComment)
    /\ jobs' = [jobs EXCEPT ![job].pc = Finished(job)]
    /\ JobsUnchanged

\* applyRules with a message in a dry run: the message is logged.
ApplyRulesDryRunLog ==
    /\ jobs["applyRules"].pc = "fetched"
    /\ jobs["applyRules"].hasMessage
    /\ ~NotDryRun("applyRules")
    /\ jobs' = [jobs EXCEPT !["applyRules"].pc = "done"]
    /\ UNCHANGED <<store, writes>>
    /\ JobsUnchanged

\* applyRules with no message to show: else if (existing && !dryRun) { ... }
ApplyRulesRemove ==
    /\ jobs["applyRules"].pc = "fetched"
    /\ ~jobs["applyRules"].hasMessage
    /\ LET existing == jobs["applyRules"].existing
           updatedBody == removeCommentSection(existing.body, "PATH_VALIDATION").value
       IN IF existing = NoComment \/ ~NotDryRun("applyRules")
          THEN /\ jobs' = [jobs EXCEPT !["applyRules"].pc = "done"]
               /\ UNCHANGED <<store, writes>>
          ELSE IF updatedBody # null /\ updatedBody # existing.body
          THEN /\ writes' = Append(writes,
                        WriteCall("applyRules", "updateComment", existing.id, updatedBody))
               /\ IF Gone(existing.id)
                  THEN /\ jobs' = [jobs EXCEPT !["applyRules"].pc = "failed"]
                       /\ UNCHANGED store
                  ELSE /\ jobs' = [jobs EXCEPT !["applyRules"].pc = "done"]
                       /\ store' = [store EXCEPT ![existing.id] = updatedBody]
          ELSE IF updatedBody = null
          THEN /\ writes' = Append(writes,
                        WriteCall("applyRules", "deleteComment", existing.id, null))
               /\ IF Gone(existing.id)
                  THEN /\ jobs' = [jobs EXCEPT !["applyRules"].pc = "failed"]
                       /\ UNCHANGED store
                  ELSE /\ jobs' = [jobs EXCEPT !["applyRules"].pc = "done"]
                       /\ store' = [store EXCEPT ![existing.id] = null]
          ELSE /\ jobs' = [jobs EXCEPT !["applyRules"].pc = "done"]
               /\ UNCHANGED <<store, writes>>
    /\ JobsUnchanged

NextJobs ==
    \/ \E job \in JobNames : DryRunLog(job)
    \/ \E job \in JobNames : Fetch(job)
    \/ \E job \in JobNames : UpdateExisting(job)
    \/ \E job \in JobNames : PostNew(job)
    \/ ApplyRulesDryRunLog
    \/ ApplyRulesRemove

\* The jobs run unserialized: any interleaving of their steps.
SpecJobs == InitJobs /\ [][NextJobs]_vars

-----------------------------------------------------------------------------
(* What the claims speak of.                                               *)

\* A start marker of section k stands in text with an end marker after it.
HasSpan(text, k) ==
    LET i == IndexFrom(text, StartOf(k), 1)
    IN i # 0 /\ IndexFrom(text, EndOf(k), i + 1) # 0

Present(text) == {k \in SectionKeys : HasSpan(text, k)}

\* The index of the end marker that closes section k in text.
CloseOf(text, k) == IndexFrom(text, EndOf(k), IndexFrom(text, StartOf(k), 1) + 1)

\* The text between the first start marker of k and the end marker after it.
Between(text, k) == SubSeq(text, IndexFrom(text, StartOf(k), 1) + 1, CloseOf(text, k) - 1)

Count(text, tok) == Cardinality({i \in 1..Len(text) : text[i] = tok})

\* No content parsed from text holds a section marker.
CleanSections(text) ==
    \A k \in Present(text) : MarkerFree(Between(text, k))

PriorityOfStart(m) ==
    SECTIONS[CHOOSE k \in SectionKeys : SECTIONS[k].start = m].priority

\* The latest call had a registered key and returned a body.
ReturnedBody ==
    /\ last.op \in {"create", "update", "remove"}
    /\ last.key \in SectionKeys
    /\ last.ret.kind = "return"
    /\ last.ret.value # null

Idempotent(text, key, content) ==
    updateCommentSection(text, key, content).value = text

\* C1 as stated: for every comment body, every registered A and every
\* marker-free c1, upserting (A, c1) a second time changes no byte.
C1_IdempotentOnEveryBody ==
    (last.op = "update" /\ MarkerFree(last.content))
        => Idempotent(last.ret.value, last.key, last.content)

\* C1 as amended: for every comment body whose parsed section contents hold
\* no section marker, every registered A and every marker-free c1, upserting
\* (A, c1) a second time changes no byte.
C1_IdempotentOnCleanBody ==
    [][(/\ last'.op = "update"
        /\ MarkerFree(last'.content)
        /\ CleanSections(body))
            => Idempotent(last'.ret.value, last'.key, last'.content)]_vars

\* An upsert of a marker-free content into a body that holds another section
\* has returned.
C1_Witness ==
    /\ last.op = "update"
    /\ MarkerFree(last.content)
    /\ CleanSections(last.ret.value)
    /\ Present(last.ret.value) \ {last.key} # {}
    /\ last.content # Trim(last.content)

\* C2: in every body a call returns, the start markers stand in strictly
\* ascending registry priority, whatever the order of the calls.
C2_PriorityOrder ==
    ReturnedBody =>
        LET v == last.ret.value
        IN \A i, j \in 1..Len(v) :
              (i < j /\ v[i] \in StartMarkers /\ v[j] \in StartMarkers)
                  => PriorityOfStart(v[i]) < PriorityOfStart(v[j])

\* A section of higher priority was upserted after one of lower priority:
\* all three sections are there and the latest upsert was BUILD_SIZE's.
C2_Witness ==
    /\ last.op = "update"
    /\ last.key = "BUILD_SIZE"
    /\ Present(last.ret.value) = SectionKeys

\* C3 as stated: between a section's start and end marker stand one blank
\* line, the content with its outer white space removed, one blank line; for
\* the section just written that content is the caller's, trimmed.
C3_ContentRenderedTrimmed ==
    (ReturnedBody /\ last.op \in {"create", "update"}) =>
        LET v == last.ret.value
        IN /\ \A k \in Present(v) :
                Between(v, k) = <<NL, NL>> \o Trim(Between(v, k)) \o <<NL, NL>>
           /\ Between(v, last.key) = <<NL, NL>> \o Trim(last.content) \o <<NL, NL>>

\* C4 as stated: removing a section that a returned body does not hold
\* returns that body byte for byte.
C4_RemoveAbsentIsNoOp ==
    (ReturnedBody /\ last.op \in {"create", "update"}) =>
        \A X \in SectionKeys \ Present(last.ret.value) :
            removeCommentSection(last.ret.value, X).value = last.ret.value

\* C5 as stated: a call with a key that is not registered throws an error
\* naming the key, returns no body, and has not parsed the body.
C5_UnknownKeyFailsFast ==
    (last.op # "none" /\ last.key \notin SectionKeys) =>
        /\ last.ret.kind = "throw"
        /\ last.ret.message = last.key
        /\ last.ret.value = null
        /\ ~last.ret.parsed

\* C6: removeCommentSection(body, id) returns null exactly when body holds
\* no registered section other than id.
C6_RemoveNullIffNoOther ==
    [][(last'.op = "remove" /\ last'.ret.kind = "return")
            => (last'.ret.value = null <=> Present(body) \ {last'.key} = {})]_vars

\* The only section of a comment was removed.
C6_Witness ==
    /\ last.op = "remove"
    /\ last.ret.kind = "return"
    /\ last.ret.value = null

NoDuplicateMarker(text) == \A m \in Markers : Count(text, m) <= 1

\* C7 as stated: from no comment or from any fetched body, a call with a
\* marker-free content returns a body that holds each marker at most once.
C7_NoDuplicateFromAnyBody ==
    (ReturnedBody /\ MarkerFree(last.content))
        => NoDuplicateMarker(last.ret.value)

\* C7 as amended: from no comment or from a fetched body whose parsed section
\* contents hold no section marker (it may hold a whole section twice), a
\* call with a marker-free content returns a body that holds each marker at
\* most once.
C7_NoDuplicateFromCleanBody ==
    [][(/\ last'.op \in {"create", "update", "remove"}
        /\ last'.ret.value # null
        /\ MarkerFree(last'.content)
        /\ (body = null \/ CleanSections(body)))
            => NoDuplicateMarker(last'.ret.value)]_vars

\* A marker-free upsert has returned a body with two sections or more.
C7_Witness ==
    /\ last.op = "update"
    /\ MarkerFree(last.content)
    /\ CleanSections(last.ret.value)
    /\ Cardinality(Present(last.ret.value)) >= 2
    /\ NoDuplicateMarker(last.ret.value)

\* The places of text that lie in no section.
Outside(text) ==
    {p \in 1..Len(text) :
        \A k \in Present(text) :
            p < IndexFrom(text, StartOf(k), 1) \/ p > CloseOf(text, k)}

SeparatorsOutside(text) == {p \in Outside(text) : text[p] = SEPARATOR}

\* C10: a returned body with n sections has n - 1 separators outside its
\* sections, each after an end marker and a blank line and before a blank
\* line and a start marker, and it ends with an end marker.
C10_SeparatorsBetweenSections ==
    ReturnedBody =>
        LET v == last.ret.value
        IN /\ Cardinality(SeparatorsOutside(v)) = Cardinality(Present(v)) - 1
           /\ \A p \in SeparatorsOutside(v) :
                /\ p > 3 /\ p + 3 <= Len(v)
                /\ v[p - 3] \in EndMarkers
                /\ v[p - 2] = NL /\ v[p - 1] = NL
                /\ v[p + 1] = NL /\ v[p + 2] = NL
                /\ v[p + 3] \in StartMarkers
           /\ v[Len(v)] \in EndMarkers

\* Three sections, one of them with a "---" of its own inside.
C10_Witness ==
    /\ ReturnedBody
    /\ Present(last.ret.value) = SectionKeys
    /\ Count(last.ret.value, SEPARATOR) > 2

\* C8: parsing what buildComment made of a set of registered sections with
\* marker-free contents yields the same keys, each with its content trimmed
\* and with the registry's priority and markers.
C8_RoundTrip ==
    (reparsed.done /\ \A j \in 1..Len(sections) : MarkerFree(sections[j].content)) =>
        /\ Len(reparsed.entries) = Len(sections)
        /\ \A j \in 1..Len(sections) :
             \E i \in 1..Len(reparsed.entries) :
                LET e == reparsed.entries[i]
                    k == sections[j].key
                IN /\ e.key = k
                   /\ e.content = Trim(sections[j].content)
                   /\ e.priority = SECTIONS[k].priority
                   /\ e.start = <<SECTIONS[k].start>>
                   /\ e.end = <<SECTIONS[k].end>>

\* Three sections, inserted with CHANGE_NOTE first, one with white space
\* around its content, have been serialized and parsed back.
C8_Witness ==
    /\ reparsed.done
    /\ Len(sections) = 3
    /\ sections[1].key = "CHANGE_NOTE"
    /\ \E j \in 1..3 : sections[j].content # Trim(sections[j].content)

\* Jobs a and b both found the same comment before either wrote, a upserted
\* its section, b wrote after a, nothing wrote that comment after b, and both
\* ended without an error.
BothWroteFromSameFetch(a, b) ==
    /\ a # b
    /\ jobs[a].pc = "done" /\ jobs[b].pc = "done"
    /\ jobs[a].hasMessage
    /\ jobs[a].existing # NoComment
    /\ jobs[a].existing = jobs[b].existing
    /\ \E ia, ib \in 1..Len(writes) :
          /\ ia < ib
          /\ writes[ia].job = a /\ writes[ia].call = "updateComment"
          /\ writes[ib].job = b /\ writes[ib].call = "updateComment"
          /\ jobs[a].fetchedAt < ia /\ jobs[b].fetchedAt < ia
          /\ \A i \in (ib + 1)..Len(writes) : writes[i].id # writes[ib].id

\* The stored comment holds the section of job as that job wrote it.
HoldsSectionOf(job) ==
    LET stored == store[jobs[job].existing.id]
    IN /\ stored # null
       /\ KeyOf(job) \in Present(stored)
       /\ Trim(Between(stored, KeyOf(job))) = Trim(MessageOf(job))

\* C9: when two jobs fetch the same comment before either writes, the one
\* that writes last discards the section the other wrote.
C9_LastWriterWins ==
    \A a, b \in JobNames : BothWroteFromSameFetch(a, b) => ~HoldsSectionOf(a)

\* Such an interleaving exists: both jobs are done and the first writer's
\* section is not in the stored comment, while the second writer's is.
C9_Witness ==
    \E a, b \in JobNames :
        /\ BothWroteFromSameFetch(a, b)
        /\ ~HoldsSectionOf(a)
        /\ HoldsSectionOf(b)

GuardFree(text) == \A i \in 1..Len(text) : text[i] # CEREBRUS_IDENTIFIER

\* The guard marker is the first line of text and stands nowhere else in it.
GuardFirstAndOnce(text) ==
    /\ Len(text) >= 1
    /\ text[1] = CEREBRUS_IDENTIFIER
    /\ Len(text) > 1 => text[2] = NL
    /\ Count(text, CEREBRUS_IDENTIFIER) = 1

\* C11 as stated: every body a call returns, after any calls and for any
\* input body, has the guard marker as its first line and nowhere else.
C11_GuardOnAnyBody ==
    ReturnedBody => GuardFirstAndOnce(last.ret.value)

\* C11 as amended: every body a call returns, for any input body (with the
\* guard marker or without it) none of whose parsed section contents holds
\* the guard marker, and for a content that does not hold it, has the guard
\* marker as its first line and nowhere else.
C11_GuardOnGuardFreeContents ==
    [][(/\ last'.op \in {"create", "update", "remove"}
        /\ last'.ret.value # null
        /\ GuardFree(last'.content)
        /\ (body = null \/ \A k \in Present(body) : GuardFree(Between(body, k))))
            => GuardFirstAndOnce(last'.ret.value)]_vars

\* An upsert into a body that does not begin with the guard marker has
\* returned a body that holds another section too.
C11_Witness ==
    /\ last.op = "update"
    /\ ~last.seen.guarded
    /\ GuardFree(last.content)
    /\ last.ret.value # null
    /\ Present(last.ret.value) \ {last.key} # {}
    /\ GuardFirstAndOnce(last.ret.value)

\* The guard marker and one section, of key, around content as given.
OneSection(key, content) ==
    <<CEREBRUS_IDENTIFIER, NL, NL, StartOf(key), NL, NL>>
        \o content \o <<NL, NL, EndOf(key)>>

\* C12: for every registered key and every content, what
\* createCommentWithSection returns is byte for byte what updateCommentSection
\* returns for the empty body, and it is the guard marker and one section.
C12_CreateIsUpsertOnEmpty ==
    (last.op = "create" /\ last.key \in SectionKeys) =>
        LET upsert == updateCommentSection(<<>>, last.key, last.content)
        IN /\ last.ret.kind = "return"
           /\ upsert.kind = "return"
           /\ last.ret.value = upsert.value
           /\ last.ret.value = OneSection(last.key, last.content)

\* A comment was created with a content that quotes a marker and has white
\* space around it.
C12_Witness ==
    /\ last.op = "create"
    /\ last.key \in SectionKeys
    /\ ~MarkerFree(last.content)
    /\ last.content # Trim(last.content)

ParsedKeys(text) ==
    {parseCommentSections(text)[i].key : i \in 1..Len(parseCommentSections(text))}

\* The call ret, made with another key than X on text in which X's start
\* marker has no end marker after it, took X for absent, returned, left X's
\* start marker out and kept the content of every other section of text.
DegradesToAbsent(text, X, call) ==
    /\ X \notin ParsedKeys(text)
    /\ call.ret.kind = "return"
    /\ call.ret.value # null => Count(call.ret.value, StartOf(X)) = 0
    /\ \A k \in Present(text) \ {call.key} :
          /\ call.ret.value # null
          /\ k \in Present(call.ret.value)
          /\ Trim(Between(call.ret.value, k)) = Trim(Between(text, k))

\* C13 as stated: for every body in which a section's start marker stands
\* with no end marker after it, an upsert or a removal of another section
\* takes that section for absent, returns, returns a body without that start
\* marker, and keeps the trimmed content of every other section.
C13_CorruptedDegradesOnEveryBody ==
    [][last'.op \in {"update", "remove"} =>
        \A X \in Unclosed(body) \ {last'.key} : DegradesToAbsent(body, X, last')]_vars

\* C13 as amended: the same, for every body none of whose parsed section
\* contents holds a section marker and for a marker-free content.
C13_CorruptedDegradesOnCleanBody ==
    [][(/\ last'.op \in {"update", "remove"}
        /\ MarkerFree(last'.content)
        /\ CleanSections(body))
            => \A X \in Unclosed(body) \ {last'.key} :
                    DegradesToAbsent(body, X, last')]_vars

\* An upsert of another section into a body with an unclosed start marker
\* has returned a body that holds a section of the input and not that marker.
C13_Witness ==
    /\ last.op = "update"
    /\ MarkerFree(last.content)
    /\ last.ret.value # null
    /\ Present(last.ret.value) \ {last.key} # {}
    /\ \E X \in last.seen.unclosed \ {last.key} :
          Count(last.ret.value, StartOf(X)) = 0

\* The write calls job has made, in order.
WritesOf(job) == SelectSeq(writes, LAMBDA w : w.job = job)

\* applyRules ended a real run in which it found a comment and had no
\* message to show.
RemovalRunEnded ==
    /\ jobs["applyRules"].pc \in {"done", "failed"}
    /\ ~jobs["applyRules"].dryRun
    /\ ~jobs["applyRules"].hasMessage
    /\ jobs["applyRules"].existing # NoComment

\* C14: such a run of applyRules calls deleteComment once and nothing else
\* if the comment it found holds no section besides PATH_VALIDATION, makes
\* no write call if the body rebuilt without PATH_VALIDATION is the body it
\* found, and otherwise calls updateComment once, with the rebuilt body.
C14_NeverPostsEmptyShell ==
    RemovalRunEnded =>
        LET existing == jobs["applyRules"].existing
            rebuilt == buildComment(Delete(parseCommentSections(existing.body),
                                           "PATH_VALIDATION"))
        IN IF Present(existing.body) \ {"PATH_VALIDATION"} = {}
           THEN WritesOf("applyRules") =
                    <<WriteCall("applyRules", "deleteComment", existing.id, null)>>
           ELSE IF rebuilt = existing.body
           THEN WritesOf("applyRules") = <<>>
           ELSE /\ Present(rebuilt) # {}
                /\ WritesOf("applyRules") =
                    <<WriteCall("applyRules", "updateComment", existing.id, rebuilt)>>

\* applyRules found a comment whose only section was its own and has
\* called deleteComment.
C14_Witness ==
    /\ RemovalRunEnded
    /\ Present(jobs["applyRules"].existing.body) = {"PATH_VALIDATION"}
    /\ Len(WritesOf("applyRules")) = 1
    /\ WritesOf("applyRules")[1].call = "deleteComment"

\* C18: a job in a dry run makes no write call, whatever comment exists.
C18_DryRunNeverWrites ==
    \A job \in JobNames : jobs[job].dryRun => WritesOf(job) = <<>>

\* All three jobs have ended a dry run on a pull request that has a comment
\* of the bot, applyRules with no message to show; the comment is as it was.
C18_Witness ==
    /\ \A job \in JobNames : jobs[job].dryRun /\ jobs[job].pc \in {"done", "failed"}
    /\ ~jobs["applyRules"].hasMessage
    /\ jobs["applyRules"].existing # NoComment
    /\ store[jobs["applyRules"].existing.id] = jobs["applyRules"].existing.body
    /\ writes = <<>>

\* What parseCommentSections makes of the comment, as a map from the keys
\* it finds to their contents; no comment has no sections.
ParsedMap(text) ==
    IF text = null THEN NoSections
    ELSE LET entries == parseCommentSections(text)
         IN [k \in {entries[i].key : i \in 1..Len(entries)} |->
                entries[CHOOSE i \in 1..Len(entries) : entries[i].key = k].content]

C16_UpsertsCommute ==
    [][(last'.op = "update" /\ last'.key \in SectionKeys) =>
        \A B \in SectionKeys \ {last'.key} : \A cb \in PlainContents :
            updateCommentSection(last'.ret.value, B, cb).value
              = updateCommentSection(updateCommentSection(body, B, cb).value,
                                     last'.key, last'.content).value]_vars

\* The sections of text other than A are those of from other than A, each
\* with the same trimmed content.
OthersKept(from, text, A) ==
    /\ Present(text) \ {A} = Present(from) \ {A}
    /\ \A k \in Present(from) \ {A} :
          Trim(Between(text, k)) = Trim(Between(from, k))

\* C17: on a body that earlier calls with marker-free contents produced, an
\* upsert of A and a removal of A that returns a body leave exactly the
\* other sections, each with its trimmed content, and add none but A.
C17_OthersUnchanged ==
    [][(/\ last'.op \in {"update", "remove"}
        /\ last'.key \in SectionKeys
        /\ last'.ret.value # null) =>
        /\ OthersKept(body, last'.ret.value, last'.key)
        /\ last'.key \in Present(last'.ret.value) <=> last'.op = "update"]_vars

\* A section was removed from a comment of three sections, one of them
\* rendered with white space around its content; two are left.
C17_Witness ==
    /\ last.op = "remove"
    /\ last.ret.value # null
    /\ Cardinality(Present(last.ret.value)) = 2
    /\ last.key \notin Present(last.ret.value)

====
